---- MODULE Spec2Model ----
(***************************************************************************)
(* A model of gemini-cli-mcp: the subprocess supervisor                    *)
(* (executeGeminiCommand, src/src/types.ts), the stdin line framer         *)
(* (setupJsonValidation, src/src/index.ts), the wiring of stdin in         *)
(* start(), and the CallTool handler with sanitizePrompt and the test      *)
(* mode's simulateGeminiResponse.                                          *)
(*                                                                         *)
(* Text is a sequence of tokens.  A token of length one is a character,    *)
(* "U+00E9" and "U+FFFD" are the characters of those code points, and any  *)
(* other token is a literal fragment of one of the program's message       *)
(* templates, so a template literal is the concatenation of its fragments  *)
(* and the texts substituted into it.  A Buffer is a sequence of bytes:    *)
(* an ASCII byte is written as its character, and "0xC3" "0xA9" are the    *)
(* two bytes of U+00E9 in UTF-8.                                           *)
(***************************************************************************)
EXTENDS Integers, Sequences, FiniteSets, TLC

VARIABLES
  call,      \* the closure state of one executeGeminiCommand invocation
  events,    \* the events delivered to that invocation's callbacks, in order
  buffer,    \* setupJsonValidation's pending text
  out,       \* what the stdin handler emitted, in order
  lineNo,    \* how many complete lines the stdin handler has taken
  fed,       \* the bytes stdin delivered so far
  nChunks,   \* in how many 'data' events
  stdinListeners,         \* process.stdin.listeners('data'), in order
  originalDataListeners,  \* the listeners setupJsonValidation captured
  throwing,  \* the captured listeners that throw when called
  transportIn,  \* the chunks the transport's own listener was called with
  TEST_MODE, \* process.env.GEMINI_TEST_MODE === 'true'
  pc,        \* where the CallTool handler of the current request stands
  request,   \* the current tools/call request
  response,  \* the response to it, once there is one
  answered,  \* the codes of the responses to the earlier requests
  calls,     \* the closure states of overlapping invocations
  callEvents,  \* the events delivered to each of them, in order
  signals,   \* the signals each child process was sent
  arg,       \* the argument of a function under test
  ret        \* and what the function returned for it

supVars == <<call, events>>

framerVars == <<buffer, out, lineNo, fed, nChunks>>

wiringVars == <<stdinListeners, originalDataListeners, throwing, transportIn>>

orchVars == <<TEST_MODE, pc, request, response, answered>>

concVars == <<calls, callEvents, signals>>

pureVars == <<arg, ret>>

vars == <<call, events, buffer, out, lineNo, fed, nChunks,
          stdinListeners, originalDataListeners, throwing, transportIn,
          TEST_MODE, pc, request, response, answered,
          calls, callEvents, signals, arg, ret>>

-----------------------------------------------------------------------------
(* Bounds of the model and constants of the program.                       *)

\* How many child-process events (data, close, error) one run delivers.
MaxEvents == 3

COMMAND_TIMEOUT_MS == 10000

\* The exit code `null` that 'close' reports for a child ended by a signal.
NullCode == -1

-----------------------------------------------------------------------------
(* Strings.                                                                *)

IsWs(c) == c \in {" ", "\n", "\t", "\r"}

RECURSIVE TrimStart(_)
TrimStart(s) ==
  IF s = <<>> THEN s
  ELSE IF IsWs(Head(s)) THEN TrimStart(Tail(s)) ELSE s

RECURSIVE TrimEnd(_)
TrimEnd(s) ==
  IF s = <<>> THEN s
  ELSE IF IsWs(s[Len(s)]) THEN TrimEnd(SubSeq(s, 1, Len(s) - 1)) ELSE s

\* String.prototype.trim
Trim(s) == TrimEnd(TrimStart(s))

\* Buffer.prototype.toString: UTF-8 decoding, each byte that is part of no
\* complete sequence of the buffer becoming U+FFFD
Decode(b) ==
  LET At(i) ==
        IF b[i] = "0xC3"
        THEN IF i < Len(b) /\ b[i + 1] = "0xA9" THEN "U+00E9" ELSE "U+FFFD"
        ELSE IF b[i] = "0xA9"
        THEN IF i > 1 /\ b[i - 1] = "0xC3" THEN "" ELSE "U+FFFD"
        ELSE b[i]
  IN SelectSeq([i \in 1..Len(b) |-> At(i)], LAMBDA c : c # "")

\* Buffer.from(string): UTF-8 encoding
RECURSIVE Encode(_)
Encode(t) ==
  IF t = <<>> THEN <<>>
  ELSE (CASE t[1] = "U+00E9" -> <<"0xC3", "0xA9">>
          [] t[1] = "U+FFFD" -> <<"0xEF", "0xBF", "0xBD">>
          [] OTHER -> <<t[1]>>) \o Encode(Tail(t))

\* `${code}` for the exit code of a 'close' event
CodeText(code) == IF code = NullCode THEN "null" ELSE ToString(code)

-----------------------------------------------------------------------------
(* The environment of one invocation: what the child process can emit.     *)

\* The chunks are Buffers: "a" then U+00E9 can arrive whole or cut between
\* the two bytes of U+00E9.
StdoutChunks == {<<"a">>, <<" ">>, <<"a", "0xC3">>, <<"0xA9">>}
StderrChunks == {<<"e">>, <<" ">>, <<"0xC3">>}
ExitCodes == {0, 1, 124, NullCode}
SpawnErrors ==
  { [code |-> "ENOENT", message |-> "spawn gemini ENOENT"],
    [code |-> "ETIMEDOUT", message |-> "Timeout"],
    [code |-> "undefined", message |-> "Generic error"] }

-----------------------------------------------------------------------------
(* executeGeminiCommand: the closure state of one invocation and its       *)
(* callbacks.  resolveCalls lists the values handed to the promise's       *)
(* resolve, in call order; kills lists the signals sent to the child.      *)

NewCall ==
  [ spawned |-> FALSE, isResolved |-> FALSE, stdout |-> <<>>, stderr |-> <<>>,
    timeoutId |-> "none", timerDelay |-> 0,
    kills |-> <<>>, resolveCalls |-> <<>>,
    command |-> <<>>, args |-> <<>> ]

\* Spawn without the setTimeout call.
SpawnNoTimer(c) ==
  [c EXCEPT !.spawned = TRUE, !.isResolved = FALSE,
            !.stdout = <<>>, !.stderr = <<>>]

\* new Promise(...) executor up to setTimeout
Spawn(c) ==
  [c EXCEPT !.spawned = TRUE, !.isResolved = FALSE,
            !.stdout = <<>>, !.stderr = <<>>,
            !.timeoutId = "armed", !.timerDelay = COMMAND_TIMEOUT_MS]

\* SpawnWith passing one string made of the model and the prompt.
SpawnWithJoined(c, prompt, model) ==
  [Spawn(c) EXCEPT
     !.command = <<"gemini">>,
     !.args = << <<"-m">> \o (IF model # <<>> THEN model ELSE <<"gemini-2.5-flash">>)
                 \o <<"-p">> \o prompt >>]

\* spawn('gemini', ['-m', model || 'gemini-2.5-flash', '-p', prompt]) and
\* what follows it in the promise's executor
SpawnWith(c, prompt, model) ==
  [Spawn(c) EXCEPT
     !.command = <<"gemini">>,
     !.args = << <<"-m">>, IF model # <<>> THEN model ELSE <<"gemini-2.5-flash">>,
                 <<"-p">>, prompt >>]

clearTimeout(t) == IF t = "armed" THEN "cleared" ELSE t

TimeoutResult ==
  [ success |-> FALSE, output |-> <<>>,
    error |-> <<"Command timed out after ",
                ToString(COMMAND_TIMEOUT_MS \div 1000), " seconds">>,
    exitCode |-> 124 ]

\* OnTimeout without the child.kill call.
OnTimeoutNoKill(c) ==
  IF ~c.isResolved
  THEN [c EXCEPT !.timeoutId = "fired", !.isResolved = TRUE,
                 !.resolveCalls = Append(@, TimeoutResult)]
  ELSE [c EXCEPT !.timeoutId = "fired"]

\* the setTimeout callback
OnTimeout(c) ==
  IF ~c.isResolved
  THEN [c EXCEPT !.timeoutId = "fired", !.isResolved = TRUE,
                 !.kills = Append(@, "SIGKILL"),
                 !.resolveCalls = Append(@, TimeoutResult)]
  ELSE [c EXCEPT !.timeoutId = "fired"]

\* child.stdout.on('data')
OnStdoutData(c, data) == [c EXCEPT !.stdout = @ \o Decode(data)]

\* child.stderr.on('data')
OnStderrData(c, data) == [c EXCEPT !.stderr = @ \o Decode(data)]

\* CloseResult without the test for an empty response.
CloseResultNoEmptyCheck(code, stdout, stderr) ==
  IF code = 0
  THEN [success |-> TRUE, output |-> Trim(stdout)]
  ELSE [ success |-> FALSE, output |-> Trim(stdout),
         error |-> IF Trim(stderr) # <<>> THEN Trim(stderr)
                   ELSE <<"Command failed with exit code ", CodeText(code)>>,
         exitCode |-> IF code = NullCode THEN 1 ELSE code ]

\* CloseResult testing the untrimmed stdout for emptiness.
CloseResultUntrimmedStdout(code, stdout, stderr) ==
  IF code = 0
  THEN IF stdout # <<>>
       THEN [success |-> TRUE, output |-> Trim(stdout)]
       ELSE [ success |-> FALSE, output |-> <<>>,
              error |-> <<"Gemini CLI returned empty response">>,
              exitCode |-> 0 ]
  ELSE [ success |-> FALSE, output |-> Trim(stdout),
         error |-> IF Trim(stderr) # <<>> THEN Trim(stderr)
                   ELSE <<"Command failed with exit code ", CodeText(code)>>,
         exitCode |-> IF code = NullCode THEN 1 ELSE code ]

\* CloseResult with `stderr ||` for `stderr.trim() ||`.
CloseResultUntrimmedStderr(code, stdout, stderr) ==
  IF code = 0
  THEN LET output == Trim(stdout) IN
       IF output # <<>>
       THEN [success |-> TRUE, output |-> output]
       ELSE [ success |-> FALSE, output |-> <<>>,
              error |-> <<"Gemini CLI returned empty response">>,
              exitCode |-> 0 ]
  ELSE [ success |-> FALSE, output |-> Trim(stdout),
         error |-> IF stderr # <<>> THEN stderr
                   ELSE <<"Command failed with exit code ", CodeText(code)>>,
         exitCode |-> IF code = NullCode THEN 1 ELSE code ]

\* the value the 'close' handler resolves with
CloseResult(code, stdout, stderr) ==
  IF code = 0
  THEN LET output == Trim(stdout) IN
       IF output # <<>>
       THEN [success |-> TRUE, output |-> output]
       ELSE [ success |-> FALSE, output |-> <<>>,
              error |-> <<"Gemini CLI returned empty response">>,
              exitCode |-> 0 ]
  ELSE [ success |-> FALSE, output |-> Trim(stdout),
         error |-> IF Trim(stderr) # <<>> THEN Trim(stderr)
                   ELSE <<"Command failed with exit code ", CodeText(code)>>,
         exitCode |-> IF code = NullCode THEN 1 ELSE code ]

\* OnClose without the clearTimeout call.
OnCloseKeepTimer(c, code) ==
  IF ~c.isResolved
  THEN [c EXCEPT !.isResolved = TRUE,
                 !.resolveCalls = Append(@, CloseResult(code, c.stdout, c.stderr))]
  ELSE c

\* OnClose without the isResolved test.
OnCloseUnguarded(c, code) ==
  [c EXCEPT !.isResolved = TRUE, !.timeoutId = clearTimeout(@),
            !.resolveCalls = Append(@, CloseResult(code, c.stdout, c.stderr))]

\* child.on('close')
OnClose(c, code) ==
  IF ~c.isResolved
  THEN [c EXCEPT !.isResolved = TRUE, !.timeoutId = clearTimeout(@),
                 !.resolveCalls = Append(@, CloseResult(code, c.stdout, c.stderr))]
  ELSE c

\* ErrorResult with the exit code of the timer's outcome on ETIMEDOUT.
ErrorResultTimeoutCode(err) ==
  [ success |-> FALSE, output |-> <<>>,
    error |-> IF err.code = "ENOENT"
              THEN <<"Gemini CLI not found. Please ensure it is installed and in your PATH.">>
              ELSE IF err.code = "ETIMEDOUT"
              THEN <<"Command timed out after ",
                     ToString(COMMAND_TIMEOUT_MS \div 1000), " seconds">>
              ELSE <<"Command execution error: ", err.message>>,
    exitCode |-> IF err.code = "ETIMEDOUT" THEN 124 ELSE 1 ]

\* the value the 'error' handler resolves with
ErrorResult(err) ==
  [ success |-> FALSE, output |-> <<>>,
    error |-> IF err.code = "ENOENT"
              THEN <<"Gemini CLI not found. Please ensure it is installed and in your PATH.">>
              ELSE IF err.code = "ETIMEDOUT"
              THEN <<"Command timed out after ",
                     ToString(COMMAND_TIMEOUT_MS \div 1000), " seconds">>
              ELSE <<"Command execution error: ", err.message>>,
    exitCode |-> 1 ]

\* OnError without the isResolved test.
OnErrorUnguarded(c, err) ==
  [c EXCEPT !.isResolved = TRUE, !.timeoutId = clearTimeout(@),
            !.resolveCalls = Append(@, ErrorResult(err))]

\* child.on('error')
OnError(c, err) ==
  IF ~c.isResolved
  THEN [c EXCEPT !.isResolved = TRUE, !.timeoutId = clearTimeout(@),
                 !.resolveCalls = Append(@, ErrorResult(err))]
  ELSE c

-----------------------------------------------------------------------------
(* The supervisor as a state machine: one invocation, and every order and  *)
(* multiplicity of the child's events and the timer's expiry.              *)

ChildEvents == Len(SelectSeq(events, LAMBDA e : e.kind # "timer"))

\* The parts of the program a specification does not run stay as they are
\* when nothing has happened in them.
SupRest == call = NewCall /\ events = <<>>

FramerRest == buffer = <<>> /\ out = <<>> /\ lineNo = 0 /\ fed = <<>> /\ nChunks = 0

WiringRest ==
  /\ stdinListeners = <<"validation">> /\ originalDataListeners = <<>>
  /\ throwing = {} /\ transportIn = <<>>

OrchRest ==
  /\ TEST_MODE = FALSE /\ pc = "idle"
  /\ request = [name |-> "none"] /\ response = [kind |-> "none"]
  /\ answered = <<>>

ConcRest == calls = <<>> /\ callEvents = <<>> /\ signals = <<>>

PureRest == arg = <<>> /\ ret = [done |-> FALSE]

SupInit ==
  /\ call = NewCall
  /\ events = <<>>
  /\ FramerRest /\ WiringRest /\ OrchRest /\ ConcRest /\ PureRest

SpawnChild ==
  /\ ~call.spawned
  /\ call' = SpawnWith(call, <<"a">>, <<>>)
  /\ UNCHANGED events
  /\ UNCHANGED <<framerVars, wiringVars, orchVars, concVars, pureVars>>

StdoutData ==
  /\ call.spawned
  /\ ChildEvents < MaxEvents
  /\ \E data \in StdoutChunks :
       /\ call' = OnStdoutData(call, data)
       /\ events' = Append(events, [kind |-> "stdout", data |-> data])
  /\ UNCHANGED <<framerVars, wiringVars, orchVars, concVars, pureVars>>

StderrData ==
  /\ call.spawned
  /\ ChildEvents < MaxEvents
  /\ \E data \in StderrChunks :
       /\ call' = OnStderrData(call, data)
       /\ events' = Append(events, [kind |-> "stderr", data |-> data])
  /\ UNCHANGED <<framerVars, wiringVars, orchVars, concVars, pureVars>>

Close ==
  /\ call.spawned
  /\ ChildEvents < MaxEvents
  /\ \E code \in ExitCodes :
       /\ call' = OnClose(call, code)
       /\ events' = Append(events, [kind |-> "close", code |-> code])
  /\ UNCHANGED <<framerVars, wiringVars, orchVars, concVars, pureVars>>

Error ==
  /\ call.spawned
  /\ ChildEvents < MaxEvents
  /\ \E err \in SpawnErrors :
       /\ call' = OnError(call, err)
       /\ events' = Append(events, [kind |-> "error", err |-> err])
  /\ UNCHANGED <<framerVars, wiringVars, orchVars, concVars, pureVars>>

\* the timer expires: a timer fires once, and never after clearTimeout
TimerFire ==
  /\ call.timeoutId = "armed"
  /\ call' = OnTimeout(call)
  /\ events' = Append(events, [kind |-> "timer"])
  /\ UNCHANGED <<framerVars, wiringVars, orchVars, concVars, pureVars>>

Next ==
  \/ SpawnChild
  \/ StdoutData
  \/ StderrData
  \/ Close
  \/ Error
  \/ TimerFire

Spec == SupInit /\ [][Next]_vars

\* The event loop runs the callback of a timer that is due.
FairSpec == SupInit /\ [][Next]_vars /\ WF_vars(TimerFire)

-----------------------------------------------------------------------------
(* setupJsonValidation: the 'data' handler of process.stdin.               *)

\* How many bytes stdin delivers in one run, and in how many chunks.
MaxInput == 5
MaxChunks == 2

Bytes == {"1", "\"", " ", "\n", "0xC3", "0xA9"}

\* String.prototype.split('\n')
RECURSIVE Split(_)
Split(t) ==
  IF \A i \in 1..Len(t) : t[i] # "\n" THEN <<t>>
  ELSE LET p == CHOOSE i \in 1..Len(t) :
                  t[i] = "\n" /\ \A j \in 1..(i - 1) : t[j] # "\n"
       IN <<SubSeq(t, 1, p - 1)>> \o Split(SubSeq(t, p + 1, Len(t)))

\* JSON.parse returns (rather than throws) on the text: a number or a string
\* of the model's characters, with JSON whitespace around it
JsonValid(t) ==
  LET u == Trim(t) IN
  \/ u # <<>> /\ \A i \in 1..Len(u) : u[i] = "1"
  \/ /\ Len(u) >= 2
     /\ u[1] = "\"" /\ u[Len(u)] = "\""
     /\ \A i \in 2..(Len(u) - 1) : u[i] \notin {"\"", "\n", "\t", "\r"}

ExcerptCap == 100

\* Excerpt without the cap.
ExcerptWhole(trimmed) == trimmed

\* trimmed.substring(0, 100) + (trimmed.length > 100 ? '...' : '')
Excerpt(trimmed) ==
  SubSeq(trimmed, 1, IF Len(trimmed) > ExcerptCap THEN ExcerptCap ELSE Len(trimmed))
  \o (IF Len(trimmed) > ExcerptCap THEN <<".", ".", ".">> ELSE <<>>)

\* the JSON-RPC response written to stdout for a line JSON.parse rejects
ParseErrorResponse(n, trimmed) ==
  [ kind |-> "write", line |-> n, jsonrpc |-> "2.0", id |-> "null", code |-> -32700,
    message |-> "Invalid JSON received", received |-> Excerpt(trimmed) ]

\* for (const listener of originalDataListeners) listener(validData):
\* the calls made, in order, and whether one of them threw, which ends the loop
RECURSIVE CallListeners(_, _, _)
CallListeners(ls, n, validData) ==
  IF ls = <<>> THEN [made |-> <<>>, threw |-> FALSE]
  ELSE LET e == [kind |-> "deliver", line |-> n, to |-> Head(ls), data |-> validData] IN
       IF Head(ls) \in throwing THEN [made |-> <<e>>, threw |-> TRUE]
       ELSE LET r == CallListeners(Tail(ls), n, validData) IN
            [made |-> <<e>> \o r.made, threw |-> r.threw]

\* ProcessLine without the `if (trimmed)` test: JSON.parse rejects ''.
ProcessLineNoBlankTest(st, line) ==
  LET trimmed == Trim(line)
      n == st.lineNo + 1 IN
  IF trimmed # <<>> /\ JsonValid(trimmed)
  THEN LET validData == Encode(trimmed \o <<"\n">>)
           r == CallListeners(originalDataListeners, n, validData) IN
       [st EXCEPT !.lineNo = n,
                  !.out = Append(@, [kind |-> "forward", line |-> n, data |-> validData])
                          \o r.made
                          \o (IF r.threw THEN <<ParseErrorResponse(n, trimmed)>> ELSE <<>>)]
  ELSE [st EXCEPT !.lineNo = n,
                  !.out = Append(@, ParseErrorResponse(n, trimmed))]

\* one iteration of the loop over the complete lines; an emission records
\* the ordinal, among the complete lines taken so far, of the line it is for.
\* The try block holds JSON.parse and the calls of the listeners, so its
\* catch block answers an exception of either.
ProcessLine(st, line) ==
  LET trimmed == Trim(line)
      n == st.lineNo + 1 IN
  IF trimmed = <<>> THEN [st EXCEPT !.lineNo = n]
  ELSE IF JsonValid(trimmed)
  THEN LET validData == Encode(trimmed \o <<"\n">>)
           r == CallListeners(originalDataListeners, n, validData) IN
       [st EXCEPT !.lineNo = n,
                  !.out = Append(@, [kind |-> "forward", line |-> n, data |-> validData])
                          \o r.made
                          \o (IF r.threw THEN <<ParseErrorResponse(n, trimmed)>> ELSE <<>>)]
  ELSE [st EXCEPT !.lineNo = n,
                  !.out = Append(@, ParseErrorResponse(n, trimmed))]

\* ProcessLines leaving the loop at the first line JSON.parse rejects.
RECURSIVE ProcessLinesStopAtError(_, _)
ProcessLinesStopAtError(st, lines) ==
  IF lines = <<>> THEN st
  ELSE IF Trim(Head(lines)) # <<>> /\ ~JsonValid(Trim(Head(lines)))
  THEN [ProcessLine(st, Head(lines)) EXCEPT !.lineNo = st.lineNo + Len(lines)]
  ELSE ProcessLinesStopAtError(ProcessLine(st, Head(lines)), Tail(lines))

\* for (const line of lines) { ... }
RECURSIVE ProcessLines(_, _)
ProcessLines(st, lines) ==
  IF lines = <<>> THEN st
  ELSE ProcessLines(ProcessLine(st, Head(lines)), Tail(lines))

\* DataHandler taking the complete lines of a chunk from the last to the
\* first.
DataHandlerLastLineFirst(st, chunk) ==
  LET text == st.buffer \o Decode(chunk)
      lines == Split(text)
      tail == lines[Len(lines)]
      r == ProcessLines([st EXCEPT !.buffer = tail], SubSeq(lines, 1, Len(lines) - 1))
      made == SubSeq(r.out, Len(st.out) + 1, Len(r.out))
  IN [r EXCEPT !.out = st.out \o [i \in 1..Len(made) |-> made[Len(made) + 1 - i]]]

\* process.stdin.on('data')
DataHandler(st, chunk) ==
  LET text == st.buffer \o Decode(chunk)
      lines == Split(text)
      tail == lines[Len(lines)]
  IN ProcessLines([st EXCEPT !.buffer = tail], SubSeq(lines, 1, Len(lines) - 1))

NewFramer == [buffer |-> <<>>, out |-> <<>>, lineNo |-> 0]

\* The handler alone, as setupJsonValidation installs it in start(): no
\* listener was registered before it, so it captured none.
FramerInit ==
  /\ buffer = NewFramer.buffer /\ out = NewFramer.out /\ lineNo = NewFramer.lineNo
  /\ fed = <<>> /\ nChunks = 0
  /\ SupRest /\ WiringRest /\ OrchRest /\ ConcRest /\ PureRest

\* stdin delivers one chunk
StdinData ==
  /\ nChunks < MaxChunks
  /\ \E n \in 1..(MaxInput - Len(fed)) :
       \E chunk \in [1..n -> Bytes] :
         LET st == DataHandler([buffer |-> buffer, out |-> out, lineNo |-> lineNo], chunk) IN
         /\ buffer' = st.buffer
         /\ out' = st.out
         /\ lineNo' = st.lineNo
         /\ fed' = fed \o chunk
         /\ nChunks' = nChunks + 1
  /\ UNCHANGED <<supVars, wiringVars, orchVars, concVars, pureVars>>

FramerNext == StdinData

FramerSpec == FramerInit /\ [][FramerNext]_vars

\* process.stdin emits 'data': each of its listeners is called with the
\* chunk, in the order of their registration
Deliver(chunk) ==
  LET cur == [buffer |-> buffer, out |-> out, lineNo |-> lineNo]
      has(l) == \E i \in 1..Len(stdinListeners) : stdinListeners[i] = l
      st == IF has("validation") THEN DataHandler(cur, chunk) ELSE cur IN
  /\ buffer' = st.buffer
  /\ out' = st.out
  /\ lineNo' = st.lineNo
  /\ transportIn' = IF has("transport") THEN Append(transportIn, chunk) ELSE transportIn
  /\ fed' = fed \o chunk
  /\ nChunks' = nChunks + 1
  /\ UNCHANGED <<stdinListeners, originalDataListeners, throwing>>

\* The longest line of the runs that feed the handler one long line.
MaxLineLength == 104

\* stdin delivers one line of up to MaxLineLength bytes and its terminator
StdinLongLine ==
  /\ nChunks = 0
  /\ \E n \in 1..MaxLineLength :
       \E c \in {"1", "\"", " "} :
         Deliver([i \in 1..n |-> IF i = 1 THEN c ELSE "\""] \o <<"\n">>)
  /\ UNCHANGED <<supVars, orchVars, concVars, pureVars>>

LongLineNext == StdinLongLine

LongLineSpec == FramerInit /\ [][LongLineNext]_vars

-----------------------------------------------------------------------------
(* start(): the wiring of process.stdin.  setupJsonValidation runs before  *)
(* the transport exists, so the listeners it captures are those that were  *)
(* registered before start(); connect() then starts the transport, which   *)
(* registers its own 'data' listener on process.stdin.                     *)

\* How many bytes stdin delivers to the started server in one run.
MaxServerInput == 3

\* Before start(): setupJsonValidation captures whatever 'data' listeners
\* process.stdin has by then, so whether there is one, and whether it throws
\* when called, is the environment's choice; main() itself registers none.
ServerInit ==
  /\ stdinListeners \in {<<>>, <<"prior">>}
  /\ throwing \in SUBSET {stdinListeners[i] : i \in 1..Len(stdinListeners)}
  /\ originalDataListeners = <<>>
  /\ transportIn = <<>>
  /\ SupRest /\ FramerRest /\ OrchRest /\ ConcRest /\ PureRest

\* start(): setupJsonValidation(), then server.connect(transport)
Start ==
  /\ \A i \in 1..Len(stdinListeners) : stdinListeners[i] # "validation"
  /\ originalDataListeners' = stdinListeners
  /\ buffer' = <<>>
  /\ stdinListeners' = <<"validation", "transport">>
  /\ UNCHANGED <<out, lineNo, fed, nChunks, throwing, transportIn>>
  /\ UNCHANGED <<supVars, orchVars, concVars, pureVars>>

\* stdin delivers one chunk to the started server
ServerStdinData ==
  /\ \E i \in 1..Len(stdinListeners) : stdinListeners[i] = "validation"
  /\ nChunks < MaxChunks
  /\ \E n \in 1..(MaxServerInput - Len(fed)) :
       \E chunk \in [1..n -> Bytes] : Deliver(chunk)
  /\ UNCHANGED <<supVars, orchVars, concVars, pureVars>>

ServerNext == Start \/ ServerStdinData

ServerSpec == ServerInit /\ [][ServerNext]_vars

-----------------------------------------------------------------------------
(* sanitizePrompt.  "U+0000", "U+0007", "U+007F" and "U+0085" are the      *)
(* characters NUL, BEL, DEL and NEL.                                       *)

\* The characters of the model that the class
\* [\x00-\x08\x0B\x0C\x0E-\x1F\x7F] matches.
ControlClass == {"U+0000", "U+0007", "U+007F"}

\* prompt.replace(/\0/g, '').replace(/[...]/g, '').trim()
sanitizePrompt(prompt) ==
  Trim(SelectSeq(SelectSeq(prompt, LAMBDA c : c # "U+0000"),
                 LAMBDA c : c \notin ControlClass))

\* The longest prompt handed to sanitizePrompt on its own.
MaxSanitizeLen == 3

PromptChars == {"a", " ", "\t", "U+0000", "U+0007", "U+007F", "U+0085"}

SanitizeInit ==
  /\ arg \in UNION {[1..n -> PromptChars] : n \in 0..MaxSanitizeLen}
  /\ ret = [done |-> FALSE]
  /\ SupRest /\ FramerRest /\ WiringRest /\ OrchRest /\ ConcRest

\* one call of sanitizePrompt
Sanitize ==
  /\ ~ret.done
  /\ ret' = [done |-> TRUE, value |-> sanitizePrompt(arg)]
  /\ UNCHANGED arg
  /\ UNCHANGED <<supVars, framerVars, wiringVars, orchVars, concVars>>

SanitizeNext == Sanitize

SanitizeSpec == SanitizeInit /\ [][SanitizeNext]_vars

-----------------------------------------------------------------------------
(* The CallTool handler, and executeGeminiCommand up to the spawn.  A      *)
(* model name is a text of one fragment; the empty text is the model ''    *)
(* and, where only its truth value is read, the model undefined.           *)

MaxPromptLength == 10000

MethodNotFound == -32601
InvalidParams == -32602
InternalError == -32603

\* String.prototype.toLowerCase, on the letters of the model
toLowerCase(t) ==
  [i \in 1..Len(t) |-> CASE t[i] = "H" -> "h" [] t[i] = "T" -> "t" [] OTHER -> t[i]]

\* String.prototype.includes
includes(t, pat) ==
  \E i \in 1..(Len(t) - Len(pat) + 1) : SubSeq(t, i, i + Len(pat) - 1) = pat

\* `${prompt.substring(0, n)}${prompt.length > n ? '...' : ''}`
Shorten(prompt, n) ==
  SubSeq(prompt, 1, IF Len(prompt) > n THEN n ELSE Len(prompt))
  \o (IF Len(prompt) > n THEN <<".", ".", ".">> ELSE <<>>)

\* simulateGeminiResponse testing for 'hello' before '2+2'.
simulateHelloFirst(prompt, model) ==
  LET lowerPrompt == toLowerCase(prompt) IN
  [ success |-> TRUE,
    output |->
      IF includes(lowerPrompt, <<"h", "e", "l", "l", "o">>)
      THEN <<"Hello! How can I help you today?">>
      ELSE IF \/ includes(lowerPrompt, <<"2", "+", "2">>)
              \/ includes(lowerPrompt, <<"2", " ", "+", " ", "2">>)
      THEN <<"2 + 2 = 4">>
      ELSE IF includes(lowerPrompt, <<"t", "e", "s", "t">>)
      THEN <<"This is a test response from the MCP server. You asked: \"">>
           \o Shorten(prompt, 50) \o <<"\"">>
      ELSE <<"I received your prompt: \"">> \o Shorten(prompt, 30) \o <<"\"">>
           \o (IF model # <<>> THEN <<" (using model: ">> \o model \o <<")">> ELSE <<>>)
           \o <<". This is a simulated response since Gemini CLI is in test mode.">> ]

\* simulateGeminiResponse, after its delay
simulateGeminiResponse(prompt, model) ==
  LET lowerPrompt == toLowerCase(prompt) IN
  [ success |-> TRUE,
    output |->
      IF \/ includes(lowerPrompt, <<"2", "+", "2">>)
         \/ includes(lowerPrompt, <<"2", " ", "+", " ", "2">>)
      THEN <<"2 + 2 = 4">>
      ELSE IF includes(lowerPrompt, <<"h", "e", "l", "l", "o">>)
      THEN <<"Hello! How can I help you today?">>
      ELSE IF includes(lowerPrompt, <<"t", "e", "s", "t">>)
      THEN <<"This is a test response from the MCP server. You asked: \"">>
           \o Shorten(prompt, 50) \o <<"\"">>
      ELSE <<"I received your prompt: \"">> \o Shorten(prompt, 30) \o <<"\"">>
           \o (IF model # <<>> THEN <<" (using model: ">> \o model \o <<")">> ELSE <<>>)
           \o <<". This is a simulated response since Gemini CLI is in test mode.">> ]

\* GeminiQuerySchema without the max(10000) rule.
GeminiQuerySchemaNoMax(req) ==
  IF ~req.hasPrompt THEN <<"prompt: ", "Required">>
  ELSE IF Len(req.prompt) < 1 THEN <<"prompt: ", "Prompt cannot be empty">>
  ELSE <<>>

\* GeminiQuerySchema.parse(args): the issues of the ZodError it throws, as
\* the handler joins them, or none when the arguments pass
GeminiQuerySchema(req) ==
  IF ~req.hasPrompt THEN <<"prompt: ", "Required">>
  ELSE IF Len(req.prompt) < 1 THEN <<"prompt: ", "Prompt cannot be empty">>
  ELSE IF Len(req.prompt) > MaxPromptLength THEN <<"prompt: ", "Prompt too long">>
  ELSE <<>>

\* the checks of executeGeminiCommand before the promise: the message of
\* the Error thrown, or none
PromptError(prompt) ==
  IF prompt = <<>> THEN <<"Prompt is required and must be a string">>
  ELSE IF Trim(prompt) = <<>> THEN <<"Prompt cannot be empty">>
  ELSE IF Len(prompt) > MaxPromptLength
  THEN <<"Prompt is too long (max 10000 characters)">>
  ELSE <<>>

McpError(code, message) == [kind |-> "error", code |-> code, message |-> message]

\* ToolResponse returning the output of a failure as a result.
ToolResponseNoThrow(result) ==
  [kind |-> "result", content |-> <<[type |-> "text", text |-> result.output]>>]

\* the handler after the await: throw for a failure, else the content
ToolResponse(result) ==
  IF ~result.success
  THEN McpError(InternalError,
                <<"Gemini CLI error: ">>
                \o (IF result.error # <<>> THEN result.error ELSE <<"Unknown error">>))
  ELSE [kind |-> "result", content |-> <<[type |-> "text", text |-> result.output]>>]

\* CallTool parsing the arguments before it tests the tool's name.
CallToolValidateFirst(req) ==
  IF GeminiQuerySchema(req) # <<>>
  THEN [ pc |-> "responded", call |-> NewCall,
         response |-> McpError(InvalidParams,
                               <<"Invalid parameters: ">> \o GeminiQuerySchema(req)) ]
  ELSE IF req.name # "gemini_query"
  THEN [ pc |-> "responded", call |-> NewCall,
         response |-> McpError(MethodNotFound, <<"Unknown tool: ", req.name>>) ]
  ELSE LET sanitizedPrompt == sanitizePrompt(req.prompt) IN
       IF TEST_MODE
       THEN [ pc |-> "awaiting", call |-> NewCall, response |-> [kind |-> "none"] ]
       ELSE IF PromptError(sanitizedPrompt) # <<>>
       THEN [ pc |-> "responded", call |-> NewCall,
              response |-> McpError(InternalError,
                                    <<"Failed to execute Gemini query: ">>
                                    \o PromptError(sanitizedPrompt)) ]
       ELSE [ pc |-> "awaiting", response |-> [kind |-> "none"],
              call |-> SpawnWith(NewCall, sanitizedPrompt, req.model) ]

\* CallTool ending the process on a ZodError instead of answering.
CallToolExitOnInvalid(req) ==
  IF req.name # "gemini_query"
  THEN [ pc |-> "responded", call |-> NewCall,
         response |-> McpError(MethodNotFound, <<"Unknown tool: ", req.name>>) ]
  ELSE IF GeminiQuerySchema(req) # <<>>
  THEN [ pc |-> "exited", call |-> NewCall, response |-> [kind |-> "none"] ]
  ELSE LET sanitizedPrompt == sanitizePrompt(req.prompt) IN
       IF TEST_MODE
       THEN [ pc |-> "awaiting", call |-> NewCall, response |-> [kind |-> "none"] ]
       ELSE IF PromptError(sanitizedPrompt) # <<>>
       THEN [ pc |-> "responded", call |-> NewCall,
              response |-> McpError(InternalError,
                                    <<"Failed to execute Gemini query: ">>
                                    \o PromptError(sanitizedPrompt)) ]
       ELSE [ pc |-> "awaiting", response |-> [kind |-> "none"],
              call |-> SpawnWith(NewCall, sanitizedPrompt, req.model) ]

\* the CallTool handler from its start to its await, or to the McpError it
\* throws before that, which the server answers the request with
CallTool(req) ==
  IF req.name # "gemini_query"
  THEN [ pc |-> "responded", call |-> NewCall,
         response |-> McpError(MethodNotFound, <<"Unknown tool: ", req.name>>) ]
  ELSE IF GeminiQuerySchema(req) # <<>>
  THEN [ pc |-> "responded", call |-> NewCall,
         response |-> McpError(InvalidParams,
                               <<"Invalid parameters: ">> \o GeminiQuerySchema(req)) ]
  ELSE LET sanitizedPrompt == sanitizePrompt(req.prompt) IN
       IF TEST_MODE
       THEN [ pc |-> "awaiting", call |-> NewCall, response |-> [kind |-> "none"] ]
       ELSE IF PromptError(sanitizedPrompt) # <<>>
       THEN [ pc |-> "responded", call |-> NewCall,
              response |-> McpError(InternalError,
                                    <<"Failed to execute Gemini query: ">>
                                    \o PromptError(sanitizedPrompt)) ]
       ELSE [ pc |-> "awaiting", response |-> [kind |-> "none"],
              call |-> SpawnWith(NewCall, sanitizedPrompt, req.model) ]

-----------------------------------------------------------------------------
(* The server answering tools/call requests.  A request is handled from    *)
(* its receipt to its response before the next one is received; while the  *)
(* handler awaits, the child's events and the timer are those of the       *)
(* supervisor.  The continuation of the await runs right after the         *)
(* callback that resolved the promise, before any further event.           *)

\* How many child events a request's invocation is delivered.
MaxOrchEvents == 2

LongPrompt(n) == [i \in 1..n |-> "a"]

Prompts ==
  { <<>>, <<" ">>, <<"U+0000">>, <<"a">>,
    <<" ", "a", "U+0007", "a", " ">>,
    <<"2", "+", "2">>, <<"2", " ", "+", " ", "2">>,
    <<"H", "e", "l", "l", "o">>, <<"T", "e", "s", "t">>,
    <<"h", "e", "l", "l", "o", " ", "2", "+", "2">>,
    <<"t", "e", "s", "t", " ", "h", "e", "l", "l", "o">>,
    LongPrompt(MaxPromptLength), LongPrompt(MaxPromptLength + 1) }

\* the arguments of a tools/call request: model absent, '' or a name
Requests ==
  { [name |-> "gemini_query", hasPrompt |-> TRUE, prompt |-> p,
     hasModel |-> m # "absent",
     model |-> IF m = "named" THEN <<"gemini-1.5-flash">> ELSE <<>>] :
      p \in Prompts, m \in {"absent", "empty", "named"} }
  \cup
  { [name |-> "gemini_query", hasPrompt |-> FALSE, prompt |-> <<>>,
     hasModel |-> FALSE, model |-> <<>>],
    [name |-> "other_tool", hasPrompt |-> TRUE, prompt |-> <<"a">>,
     hasModel |-> FALSE, model |-> <<>>],
    [name |-> "other_tool", hasPrompt |-> FALSE, prompt |-> <<>>,
     hasModel |-> FALSE, model |-> <<>>],
    [name |-> "other_tool", hasPrompt |-> TRUE,
     prompt |-> LongPrompt(MaxPromptLength + 1),
     hasModel |-> TRUE, model |-> <<"gemini-1.5-flash">>] }

OrchInit ==
  /\ TEST_MODE \in BOOLEAN
  /\ pc = "idle"
  /\ request = [name |-> "none"] /\ response = [kind |-> "none"]
  /\ answered = <<>>
  /\ SupRest /\ FramerRest /\ WiringRest /\ ConcRest /\ PureRest

\* a tools/call request arrives
Receive ==
  /\ pc = "idle"
  /\ request' \in Requests
  /\ pc' = "received"
  /\ UNCHANGED <<TEST_MODE, response, answered>>
  /\ UNCHANGED <<supVars, framerVars, wiringVars, concVars, pureVars>>

\* the handler runs up to its await or its throw
HandleCall ==
  /\ pc = "received"
  /\ LET r == CallTool(request) IN
     /\ pc' = r.pc
     /\ response' = r.response
     /\ call' = r.call
  /\ UNCHANGED <<events, TEST_MODE, request, answered>>
  /\ UNCHANGED <<framerVars, wiringVars, concVars, pureVars>>

Pending ==
  /\ pc = "awaiting"
  /\ call.resolveCalls = <<>>
  /\ ChildEvents < MaxOrchEvents

OrchStdoutData == Pending /\ StdoutData

OrchStderrData == Pending /\ StderrData

OrchClose == Pending /\ Close

OrchError == Pending /\ Error

\* the delay of simulateGeminiResponse is over and it returns
SimulationDone ==
  /\ TEST_MODE
  /\ pc = "awaiting"
  /\ call.resolveCalls = <<>>
  /\ call' = [call EXCEPT !.resolveCalls =
                 <<simulateGeminiResponse(sanitizePrompt(request.prompt), request.model)>>]
  /\ UNCHANGED <<events, orchVars>>
  /\ UNCHANGED <<framerVars, wiringVars, concVars, pureVars>>

\* the await returns the result and the handler finishes
Respond ==
  /\ pc = "awaiting"
  /\ call.resolveCalls # <<>>
  /\ response' = ToolResponse(call.resolveCalls[1])
  /\ pc' = "responded"
  /\ UNCHANGED <<TEST_MODE, request, answered>>
  /\ UNCHANGED <<supVars, framerVars, wiringVars, concVars, pureVars>>

OrchNext ==
  \/ Receive
  \/ HandleCall
  \/ OrchStdoutData
  \/ OrchStderrData
  \/ OrchClose
  \/ OrchError
  \/ TimerFire
  \/ SimulationDone
  \/ Respond

OrchSpec == OrchInit /\ [][OrchNext]_vars

-----------------------------------------------------------------------------
(* The server over several requests in a row, outside test mode: each is   *)
(* a malformed line, a call that fails validation, or a well-formed call   *)
(* whose child succeeds, fails to spawn, fails, answers nothing or hangs.  *)

\* How many requests one run of the server receives.
MaxRequests == 2

RecoveryRequests ==
  { [name |-> "gemini_query", hasPrompt |-> TRUE, prompt |-> <<"a">>,
     hasModel |-> FALSE, model |-> <<>>],
    [name |-> "gemini_query", hasPrompt |-> FALSE, prompt |-> <<>>,
     hasModel |-> FALSE, model |-> <<>>] }

RecoveryInit ==
  /\ TEST_MODE = FALSE
  /\ pc = "idle"
  /\ request = [name |-> "none"] /\ response = [kind |-> "none"]
  /\ answered = <<>>
  /\ SupRest /\ FramerRest /\ WiringRest /\ ConcRest /\ PureRest

\* a tools/call request arrives
RecoveryReceive ==
  /\ pc = "idle"
  /\ request' \in RecoveryRequests
  /\ pc' = "received"
  /\ UNCHANGED <<TEST_MODE, response, answered>>
  /\ UNCHANGED <<supVars, framerVars, wiringVars, concVars, pureVars>>

\* a line that is not JSON arrives: the stdin handler answers it
MalformedLine ==
  /\ pc = "idle"
  /\ response' = DataHandler(NewFramer, <<"\"", "\n">>).out[1]
  /\ pc' = "responded"
  /\ UNCHANGED <<TEST_MODE, request, answered>>
  /\ UNCHANGED <<supVars, framerVars, wiringVars, concVars, pureVars>>

\* the response is out and the server waits for the next request
NextRequest ==
  /\ pc = "responded"
  /\ Len(answered) + 1 < MaxRequests
  /\ answered' = Append(answered, IF response.kind = "result" THEN 0 ELSE response.code)
  /\ pc' = "idle"
  /\ request' = [name |-> "none"]
  /\ response' = [kind |-> "none"]
  /\ call' = NewCall
  /\ events' = <<>>
  /\ UNCHANGED TEST_MODE
  /\ UNCHANGED <<framerVars, wiringVars, concVars, pureVars>>

RecoveryNext ==
  \/ RecoveryReceive
  \/ MalformedLine
  \/ HandleCall
  \/ OrchStdoutData
  \/ OrchStderrData
  \/ OrchClose
  \/ OrchError
  \/ TimerFire
  \/ Respond
  \/ NextRequest

\* The event loop runs the handler of a request received, the callback of
\* a timer that is due and the continuation of a settled promise.
FairRecoverySpec ==
  /\ RecoveryInit /\ [][RecoveryNext]_vars
  /\ WF_vars(HandleCall) /\ WF_vars(TimerFire) /\ WF_vars(Respond)

-----------------------------------------------------------------------------
(* Overlapping invocations of executeGeminiCommand.  Each call of the      *)
(* function runs the promise's executor anew, so isResolved, stdout,       *)
(* stderr, child and timeoutId are variables of that call's closure, and   *)
(* the callbacks registered in it read and write those only.               *)

Invocations == {"A", "B"}

\* How many child events the overlapping invocations are delivered in all.
MaxConcEvents == 3

\* what the children of these runs emit
ConcEvents ==
  { [kind |-> "stdout", data |-> <<"a">>],
    [kind |-> "stderr", data |-> <<"e">>],
    [kind |-> "close", code |-> 0],
    [kind |-> "close", code |-> 1],
    [kind |-> "error", err |-> [code |-> "ENOENT", message |-> "spawn gemini ENOENT"]] }

\* the callback that an event runs, on the closure state c
Apply(c, e) ==
  CASE e.kind = "spawn" -> SpawnWith(c, <<"a">>, <<>>)
    [] e.kind = "stdout" -> OnStdoutData(c, e.data)
    [] e.kind = "stderr" -> OnStderrData(c, e.data)
    [] e.kind = "close" -> OnClose(c, e.code)
    [] e.kind = "error" -> OnError(c, e.err)
    [] e.kind = "timer" -> OnTimeout(c)

\* RunCallback with the closure variables shared by all invocations.
RunCallbackShared(cs, i, e) == [j \in DOMAIN cs |-> Apply(cs[j], e)]

\* an event of invocation i runs the callback registered in i's closure
RunCallback(cs, i, e) == [cs EXCEPT ![i] = Apply(@, e)]

ConcInit ==
  /\ calls = [i \in Invocations |-> NewCall]
  /\ callEvents = <<>>
  /\ signals = [i \in Invocations |-> <<>>]
  /\ SupRest /\ FramerRest /\ WiringRest /\ OrchRest /\ PureRest

\* executeGeminiCommand is called once more
ConcSpawn ==
  /\ \E i \in Invocations :
       /\ ~calls[i].spawned
       /\ calls' = RunCallback(calls, i, [kind |-> "spawn"])
       /\ callEvents' = Append(callEvents, [inv |-> i, kind |-> "spawn"])
  /\ UNCHANGED signals
  /\ UNCHANGED <<supVars, framerVars, wiringVars, orchVars, pureVars>>

\* the child of one invocation emits an event
ConcChildEvent ==
  /\ Len(SelectSeq(callEvents, LAMBDA e : e.kind \notin {"spawn", "timer"})) < MaxConcEvents
  /\ \E i \in Invocations :
       /\ calls[i].spawned
       /\ \E e \in ConcEvents :
            /\ calls' = RunCallback(calls, i, e)
            /\ callEvents' = Append(callEvents, [inv |-> i, ev |-> e, kind |-> e.kind])
  /\ UNCHANGED signals
  /\ UNCHANGED <<supVars, framerVars, wiringVars, orchVars, pureVars>>

\* the timer of one invocation expires; child.kill reaches the child that
\* the closure of the callback holds
ConcTimerFire ==
  /\ \E i \in Invocations :
       /\ calls[i].timeoutId = "armed"
       /\ calls' = RunCallback(calls, i, [kind |-> "timer"])
       /\ callEvents' = Append(callEvents, [inv |-> i, kind |-> "timer"])
       /\ signals' =
            [j \in Invocations |->
               signals[j] \o
               [k \in 1..(Len(calls'[j].kills) - Len(calls[j].kills)) |->
                  [signal |-> calls'[j].kills[Len(calls[j].kills) + k], by |-> i]]]
  /\ UNCHANGED <<supVars, framerVars, wiringVars, orchVars, pureVars>>

ConcNext == ConcSpawn \/ ConcChildEvent \/ ConcTimerFire

ConcSpec == ConcInit /\ [][ConcNext]_vars

-----------------------------------------------------------------------------
(* What a run delivered, read from the history of events.                  *)

IsTerminal(e) == e.kind \in {"close", "error", "timer"}

TerminalIdxs == {i \in 1..Len(events) : IsTerminal(events[i])}

\* the position of the first close, error or timer expiry; 0 if none yet
FirstTerminalIdx ==
  IF TerminalIdxs = {} THEN 0
  ELSE CHOOSE i \in TerminalIdxs : \A j \in TerminalIdxs : i <= j

FirstTerminal == events[FirstTerminalIdx]

EventsBefore == SubSeq(events, 1, FirstTerminalIdx - 1)

\* the bytes a stream delivered, in arrival order
RECURSIVE ConcatData(_, _)
ConcatData(evs, kind) ==
  IF evs = <<>> THEN <<>>
  ELSE (IF Head(evs).kind = kind THEN Head(evs).data ELSE <<>>)
       \o ConcatData(Tail(evs), kind)

\* the texts of a stream's chunks, each chunk decoded on its own, in
\* arrival order
RECURSIVE ConcatText(_, _)
ConcatText(evs, kind) ==
  IF evs = <<>> THEN <<>>
  ELSE (IF Head(evs).kind = kind THEN Decode(Head(evs).data) ELSE <<>>)
       \o ConcatText(Tail(evs), kind)

\* what the child wrote to stdout before the first terminal event
StdoutBefore == Decode(ConcatData(EventsBefore, "stdout"))

\* what had been accumulated from stderr before the first terminal event
StderrBefore == ConcatText(EventsBefore, "stderr")

AllWhitespace(s) == \A i \in 1..Len(s) : IsWs(s[i])

Resolved == Len(call.resolveCalls) >= 1

\* the value the promise settles with: that of the first resolve call
Outcome == call.resolveCalls[1]

FirstIs(kind) == FirstTerminalIdx > 0 /\ FirstTerminal.kind = kind

-----------------------------------------------------------------------------
(* Claims.                                                                 *)

\* C1: once spawned, whatever close, error and timer events follow, and
\* however many, resolve is called exactly once: never twice, and once as
\* soon as one of those events has been delivered.
C1_ResolvedExactlyOnce ==
  /\ Len(call.resolveCalls) <= 1
  /\ (FirstTerminalIdx > 0 <=> Len(call.resolveCalls) = 1)
  /\ call.isResolved <=> Len(call.resolveCalls) = 1

\* C1 witness: three terminal events were delivered, one outcome produced.
C1_Witness ==
  /\ Cardinality(TerminalIdxs) >= 3
  /\ Len(call.resolveCalls) = 1

\* the classification of one terminal event, given the buffers it finds
Classification(e, stdout, stderr) ==
  CASE e.kind = "close" -> CloseResult(e.code, stdout, stderr)
    [] e.kind = "error" -> ErrorResult(e.err)
    [] e.kind = "timer" -> TimeoutResult

\* C2: the first close, error or timer expiry delivered fixes the outcome as
\* its classification, and every event delivered after it leaves the resolve
\* calls (so the outcome's success, output, error and exit code) and the
\* signals sent to the child as they were.
C2_FirstEventWins ==
  [][ /\ Resolved =>
           /\ call'.resolveCalls = call.resolveCalls
           /\ call'.kills = call.kills
      /\ (~Resolved /\ Len(events') > Len(events) /\ IsTerminal(events'[Len(events')])) =>
           call'.resolveCalls =
             <<Classification(events'[Len(events')], call.stdout, call.stderr)>>
    ]_vars

\* C2 witness: after the first terminal event, late output and a late
\* close and error were delivered.
C2_Witness ==
  /\ Resolved
  /\ \E i, j, k \in (FirstTerminalIdx + 1)..Len(events) :
       /\ events[i].kind = "stdout"
       /\ events[j].kind = "close"
       /\ events[k].kind = "error"

\* C3: with the timer's callback run once it is due, every spawned
\* invocation eventually resolves, also when the child never closes and
\* never errors.
C3_EventuallyResolves == call.spawned ~> Resolved

\* C3 witness: resolved with no close and no error ever delivered.
C3_Witness ==
  /\ Resolved
  /\ \A i \in 1..Len(events) : events[i].kind \notin {"close", "error"}
  /\ ChildEvents = MaxEvents

\* C4: when the timer fires first, the child is sent SIGKILL and the outcome
\* is a failure with empty output, whatever stdout held, an error naming the
\* bound the timer was armed with, and exit code 124.
C4_TimeoutOutcome ==
  FirstIs("timer") =>
    /\ call.kills = <<"SIGKILL">>
    /\ Outcome.success = FALSE
    /\ Outcome.output = <<>>
    /\ Outcome.error = <<"Command timed out after ",
                         ToString(call.timerDelay \div 1000), " seconds">>
    /\ Outcome.exitCode = 124

\* C4 witness: the timer fired first, after stdout had accumulated.
C4_Witness ==
  /\ FirstIs("timer")
  /\ Trim(StdoutBefore) # <<>>
  /\ Resolved

\* C5: a close with code 0 as the first terminal event, with stdout empty or
\* all whitespace, gives a failure reporting an empty response.
C5_EmptyResponseFails ==
  (FirstIs("close") /\ FirstTerminal.code = 0 /\ AllWhitespace(StdoutBefore)) =>
    /\ Outcome.success = FALSE
    /\ Outcome.error = <<"Gemini CLI returned empty response">>

\* C5 witness: whitespace arrived on stdout, then close with code 0.
C5_Witness ==
  /\ FirstIs("close") /\ FirstTerminal.code = 0
  /\ StdoutBefore # <<>> /\ AllWhitespace(StdoutBefore)
  /\ Resolved

NotFoundMessage ==
  <<"Gemini CLI not found. Please ensure it is installed and in your PATH.">>

C7_NonZeroExitOutcome ==
  (FirstIs("close") /\ FirstTerminal.code # 0) =>
    /\ Outcome.success = FALSE
    /\ Outcome.error =
         IF AllWhitespace(StderrBefore)
         THEN <<"Command failed with exit code ", CodeText(FirstTerminal.code)>>
         ELSE Trim(StderrBefore)
    /\ Outcome.exitCode =
         IF FirstTerminal.code = NullCode THEN 1 ELSE FirstTerminal.code

\* C7 witness: whitespace on stderr, then close with no exit code.
C7_Witness ==
  /\ FirstIs("close") /\ FirstTerminal.code = NullCode
  /\ StderrBefore # <<>> /\ AllWhitespace(StderrBefore)
  /\ Resolved

\* C8: a close with code 0 as the first terminal event, with stdout not all
\* whitespace, gives success with output the trim of what the child wrote
\* to stdout before the close, however that output was cut into chunks.
C8_SuccessOutput ==
  (FirstIs("close") /\ FirstTerminal.code = 0 /\ ~AllWhitespace(StdoutBefore)) =>
    Outcome = [success |-> TRUE, output |-> Trim(StdoutBefore)]

-----------------------------------------------------------------------------
(* What stdin delivered, read from the bytes fed.                          *)

\* the positions of the line terminators
NewlinePos == {i \in 1..Len(fed) : fed[i] = "\n"}

\* the ordinal of the line that the terminator at p ends
LineOrdinal(p) == Cardinality({q \in NewlinePos : q <= p})

\* the bytes of that line, and its text, trimmed
LineBytes(p) ==
  LET before == {q \in NewlinePos : q < p}
      start == IF before = {} THEN 1
               ELSE 1 + CHOOSE q \in before : \A r \in before : r <= q
  IN SubSeq(fed, start, p - 1)

LineText(p) == Trim(Decode(LineBytes(p)))

EmissionsFor(k) == SelectSeq(out, LAMBDA e : e.line = k)

Forwards(em) == SelectSeq(em, LAMBDA e : e.kind = "forward")

\* one line and its terminator, nothing else
SingleLine(b) ==
  /\ Len(b) >= 2
  /\ b[Len(b)] = "\n"
  /\ \A i \in 1..(Len(b) - 1) : b[i] # "\n"

\* C9: a newline-terminated line fed as two chunks, wherever it is split,
\* gives the emissions that the line fed as one chunk gives, and the first
\* of the two chunks alone gives none.
C9_SplitLineEquivalence ==
  /\ (nChunks = 1 /\ NewlinePos = {}) => out = <<>>
  /\ (nChunks = 2 /\ SingleLine(fed)) => out = DataHandler(NewFramer, fed).out

\* C10: every complete line that is valid JSON is forwarded, once, and the
\* forwarded lines keep the order of the input; every non-empty line that is
\* not valid JSON gets exactly one response, a parse error with code -32700
\* and id null; whatever lines come before or after, in this chunk or others.
C10_MalformedNeverSuppresses ==
  /\ \A p \in NewlinePos :
       LET t == LineText(p)
           em == EmissionsFor(LineOrdinal(p)) IN
       t # <<>> =>
         IF JsonValid(t)
         THEN Len(Forwards(em)) = 1
         ELSE /\ Len(em) = 1
              /\ em[1].kind = "write"
              /\ em[1].code = -32700
              /\ em[1].id = "null"
  /\ \A i, j \in 1..Len(out) :
       (i < j /\ out[i].kind = "forward" /\ out[j].kind = "forward") =>
         out[i].line < out[j].line

\* C10 witness: one chunk held a malformed line and then a valid line, and
\* both were answered.
C10_Witness ==
  /\ nChunks = 1
  /\ \E i, j \in 1..Len(out) :
       /\ i < j
       /\ out[i].kind = "write" /\ out[j].kind = "forward"
  /\ \E p \in NewlinePos : LineText(p) # <<>> /\ ~JsonValid(LineText(p))

\* C11 as stated: the excerpt of a malformed line, truncation marker
\* included, is never longer than the cap of 100 characters.
C11_Original ==
  \A i \in 1..Len(out) :
    out[i].kind = "write" => Len(out[i].received) <= ExcerptCap

\* C11: the excerpt of a malformed line is the trimmed line itself when that
\* has at most 100 characters, and else its first 100 characters followed by
\* the marker "...": at most 100 characters of the line, 103 in all.
C11_ExcerptBounded ==
  \A p \in NewlinePos :
    LET t == LineText(p)
        em == EmissionsFor(LineOrdinal(p)) IN
    (t # <<>> /\ ~JsonValid(t)) =>
      /\ Len(em) = 1 /\ em[1].kind = "write"
      /\ LET r == em[1].received IN
         IF Len(t) <= ExcerptCap THEN r = t
         ELSE /\ Len(r) = ExcerptCap + 3
              /\ SubSeq(r, 1, ExcerptCap) = SubSeq(t, 1, ExcerptCap)
              /\ SubSeq(r, ExcerptCap + 1, ExcerptCap + 3) = <<".", ".", ".">>

\* C11 witness: a malformed line of more than 100 characters was answered.
C11_Witness ==
  \E p \in NewlinePos :
    /\ Len(LineText(p)) > ExcerptCap
    /\ ~JsonValid(LineText(p))
    /\ \E i \in 1..Len(out) : out[i].kind = "write" /\ out[i].line = LineOrdinal(p)

\* C12: every chunk the transport's listener on stdin was called with is a
\* line the handler validated and forwarded, never the raw chunk.
C12_TransportBehindValidation ==
  \A i \in 1..Len(transportIn) :
    \E j \in 1..Len(out) :
      /\ out[j].kind \in {"forward", "deliver"}
      /\ out[j].data = transportIn[i]
      /\ JsonValid(Decode(transportIn[i]))

IsC0(c) == c \in {"U+0000", "U+0007", "\t", "\n", "\r", "U+007F"}

IsC1(c) == c = "U+0085"

\* C16: the result of sanitizePrompt holds no null byte and no C0 or C1
\* control character, does not begin or end with whitespace, and is the
\* other characters of the input in their order.
C16_SanitizedPrompt ==
  ret.done =>
    LET v == ret.value IN
    /\ \A i \in 1..Len(v) : v[i] # "U+0000" /\ ~IsC0(v[i]) /\ ~IsC1(v[i])
    /\ v # <<>> => (~IsWs(v[1]) /\ ~IsWs(v[Len(v)]))
    /\ v = Trim(SelectSeq(arg, LAMBDA c : ~IsC0(c) /\ ~IsC1(c)))

\* the prompt of the request is missing, empty or too long
BadPrompt(req) ==
  ~req.hasPrompt \/ req.prompt = <<>> \/ Len(req.prompt) > MaxPromptLength

\* C14: a gemini_query call whose prompt is missing, empty or longer than
\* 10,000 characters is answered with InvalidParams (-32602), and neither a
\* subprocess nor a simulated execution is started for it.
C14_InvalidParamsNoSpawn ==
  (pc \in {"awaiting", "responded"} /\ request.name = "gemini_query"
     /\ BadPrompt(request)) =>
    /\ pc = "responded"
    /\ response.kind = "error" /\ response.code = -32602
    /\ ~call.spawned /\ call.resolveCalls = <<>> /\ events = <<>>

\* C14 witness: a prompt of more than 10,000 characters was answered.
C14_Witness ==
  /\ pc = "responded" /\ request.name = "gemini_query"
  /\ request.hasPrompt /\ Len(request.prompt) > MaxPromptLength
  /\ response.kind = "error"

\* C15: for a validated call, a successful outcome is answered with a result
\* whose one text content is the outcome's output, and an outcome of
\* non-zero exit, empty response, spawn error or timeout is answered with
\* InternalError (-32603), which is not the code of InvalidParams.
C15_OutcomeMapping ==
  (pc = "responded" /\ call.resolveCalls # <<>>) =>
    /\ Outcome.success =>
         /\ response.kind = "result"
         /\ Len(response.content) = 1
         /\ response.content[1].type = "text"
         /\ response.content[1].text = Outcome.output
    /\ ( \/ FirstIs("close") /\ FirstTerminal.code # 0
         \/ FirstIs("close") /\ AllWhitespace(StdoutBefore)
         \/ FirstIs("error")
         \/ FirstIs("timer") ) =>
         /\ response.kind = "error"
         /\ response.code = -32603
         /\ response.code # InvalidParams
    /\ (FirstIs("close") /\ FirstTerminal.code = 0 /\ ~AllWhitespace(StdoutBefore)) =>
         Outcome.success

\* C15 witness: an empty response of a child that exited with 0 was answered.
C15_Witness ==
  /\ pc = "responded"
  /\ FirstIs("close") /\ FirstTerminal.code = 0 /\ AllWhitespace(StdoutBefore)
  /\ response.kind = "error"

C20_SimulatedMode ==
  TEST_MODE =>
    /\ ~call.spawned /\ call.timeoutId = "none" /\ call.kills = <<>> /\ events = <<>>
    /\ Len(call.resolveCalls) <= 1
    /\ call.resolveCalls # <<>> =>
         LET o == call.resolveCalls[1]
             p == toLowerCase(sanitizePrompt(request.prompt)) IN
         /\ o.success
         /\ IF includes(p, <<"2", "+", "2">>) \/ includes(p, <<"2", " ", "+", " ", "2">>)
            THEN o.output = <<"2 + 2 = 4">>
            ELSE IF includes(p, <<"h", "e", "l", "l", "o">>)
            THEN o.output = <<"Hello! How can I help you today?">>
            ELSE IF includes(p, <<"t", "e", "s", "t">>)
            THEN o.output[1] = "This is a test response from the MCP server. You asked: \""
            ELSE o.output[1] = "I received your prompt: \""

\* C20 witness: in test mode, a prompt with both 'hello' and '2+2' resolved.
C20_Witness ==
  /\ TEST_MODE
  /\ call.resolveCalls # <<>>
  /\ includes(request.prompt, <<"h", "e", "l", "l", "o">>)
  /\ includes(request.prompt, <<"2", "+", "2">>)
  /\ call.resolveCalls[1].output = <<"2 + 2 = 4">>

\* the events of invocation i, in order, as the callbacks saw them
OwnEvents(i) ==
  LET own == SelectSeq(callEvents, LAMBDA e : e.inv = i) IN
  [k \in 1..Len(own) |-> IF own[k].kind \in {"spawn", "timer"} THEN own[k] ELSE own[k].ev]

\* the closure state of an invocation run alone with these events
RECURSIVE Alone(_, _)
Alone(c, evs) ==
  IF evs = <<>> THEN c ELSE Alone(Apply(c, Head(evs)), Tail(evs))

\* C18: with invocations overlapping, whatever the interleaving of their
\* events, the state and outcome of each is that of the invocation run
\* alone with its own events and timer; each resolves once if one of its
\* terminal events occurred and never twice; and a child is sent a kill
\* only by the timer of its own invocation.
C18_Isolation ==
  \A i \in Invocations :
    /\ calls[i] = Alone(NewCall, OwnEvents(i))
    /\ Len(calls[i].resolveCalls) <= 1
    /\ (\E k \in 1..Len(OwnEvents(i)) : IsTerminal(OwnEvents(i)[k])) =>
         Len(calls[i].resolveCalls) = 1
    /\ \A k \in 1..Len(signals[i]) : signals[i][k].by = i
    /\ Len(signals[i]) =
         Len(SelectSeq(OwnEvents(i), LAMBDA e : e.kind = "timer"))

\* C18 witness: events of A, then B, then A; A timed out and its child was
\* killed, B closed with success and its child was sent nothing.
C18_Witness ==
  /\ \E a, b, c \in 1..Len(callEvents) :
       /\ a < b /\ b < c
       /\ callEvents[a].inv = "A" /\ callEvents[a].kind = "stdout"
       /\ callEvents[b].inv = "B" /\ callEvents[b].kind = "stdout"
       /\ callEvents[c].inv = "A" /\ callEvents[c].kind = "timer"
  /\ calls["A"].resolveCalls # <<>> /\ calls["A"].resolveCalls[1].exitCode = 124
  /\ calls["B"].resolveCalls # <<>> /\ calls["B"].resolveCalls[1].success
  /\ signals["A"] # <<>> /\ signals["B"] = <<>>

\* C19: a request received is answered, whatever errors the requests
\* before it ran into (malformed line, validation failure, spawn failure,
\* non-zero or empty execution, timeout), and the server never exits.
C19_ErrorsRecoverable ==
  /\ [](pc # "exited")
  /\ (pc = "received") ~> (pc = "responded" /\ response.kind # "none")

\* C19 witness: after a request that ended in an error, a well-formed
\* request was answered with a result.
C19_Witness ==
  /\ answered # <<>>
  /\ \A k \in 1..Len(answered) : answered[k] # 0
  /\ pc = "responded"
  /\ response.kind = "result"


-----------------------------------------------------------------------------
(* The timeout bound, the tool name, the sentinel exit code, the kill      *)
(* signal and the shape of outcomes.                                       *)

\* C21: the timer armed for a command is set to 5 minutes when a real
\* subprocess is run (production mode) and to 10 seconds in test mode, so
\* that a hung subprocess in production is not timed out before 5 minutes.
C21_TimeoutFiveMinutes ==
  call.timeoutId # "none" =>
    call.timerDelay = IF TEST_MODE THEN 10 * 1000 ELSE 5 * 60 * 1000

\* C22: a tools/call request that names a tool other than 'gemini_query' is
\* answered with MethodNotFound (-32601) whatever its arguments are: they are
\* not validated (no InvalidParams answer), and neither a subprocess nor a
\* simulated execution is started for it.
C22_UnknownToolMethodNotFound ==
  (pc \in {"awaiting", "responded"} /\ request.name # "gemini_query") =>
    /\ pc = "responded"
    /\ response.kind = "error" /\ response.code = -32601
    /\ response.message = <<"Unknown tool: ", request.name>>
    /\ ~call.spawned /\ call.resolveCalls = <<>> /\ events = <<>>

\* C22 witness: a call naming another tool, with arguments that gemini_query
\* would reject, was answered.
C22_Witness ==
  /\ pc = "responded" /\ request.name # "gemini_query"
  /\ BadPrompt(request)
  /\ response.kind = "error"

\* the outcome's error message is the one that reports a timeout
ReportsTimeout(o) ==
  ~o.success /\ o.error # <<>> /\ o.error[1] = "Command timed out after "

\* C23: every outcome whose error message reports that the command timed
\* out carries the sentinel exit code 124.
C23_TimedOutCarriesSentinel ==
  (Resolved /\ ReportsTimeout(Outcome)) => Outcome.exitCode = 124

\* C24: an outcome carries exit code 124 only when the timer's firing
\* produced it, never as the classification of a close or of a spawn error.
C24_SentinelOnlyFromTimer ==
  (Resolved /\ ~Outcome.success /\ Outcome.exitCode = 124) => FirstIs("timer")

\* C25: the kill signal is sent at most once per invocation, and only by
\* the timer firing while the invocation is pending; once a close or error
\* event has resolved the invocation its timer is cancelled and the child is
\* never killed, whatever is delivered afterwards.
C25_KillOnlyByPendingTimer ==
  /\ Len(call.kills) <= 1
  /\ call.kills # <<>> => FirstIs("timer")
  /\ (FirstIs("close") \/ FirstIs("error")) =>
       /\ call.timeoutId = "cleared"
       /\ call.kills = <<>>

\* C25 witness: a close resolved the invocation and further events of the
\* child were delivered after it.
C25_Witness ==
  /\ FirstIs("close")
  /\ FirstTerminalIdx < Len(events)
  /\ ChildEvents = MaxEvents
  /\ call.kills = <<>>

\* C26: every value the promise is resolved with has the shape of exactly
\* one variant: success with a non-empty output and neither an error nor an
\* exit code, or failure with a non-empty error message and an exit code
\* that is a number.
C26_OutcomeShape ==
  \A i \in 1..Len(call.resolveCalls) :
    LET o == call.resolveCalls[i] IN
      \/ /\ o.success = TRUE
         /\ DOMAIN o = {"success", "output"}
         /\ o.output # <<>>
      \/ /\ o.success = FALSE
         /\ DOMAIN o = {"success", "output", "error", "exitCode"}
         /\ o.error # <<>>
         /\ \A j \in 1..Len(o.error) : o.error[j] # ""
         /\ o.exitCode \in Int

\* C26 witness: a success was resolved although stderr had content.
C26_Witness ==
  /\ Resolved /\ Outcome.success
  /\ StderrBefore # <<>>

-----------------------------------------------------------------------------
(* The pending buffer, the order of emissions, blank lines and the         *)
(* forwarded payload.                                                      *)

\* the bytes stdin delivered after the last line terminator
TailBytes ==
  LET last == IF NewlinePos = {} THEN 0
              ELSE CHOOSE q \in NewlinePos : \A r \in NewlinePos : r <= q
  IN SubSeq(fed, last + 1, Len(fed))

\* C27: after the data handler returns from a chunk, the pending buffer
\* holds no newline, and it holds exactly what was received after the last
\* newline so far: the text of those bytes.
C27_TailAfterLastNewline ==
  /\ \A i \in 1..Len(buffer) : buffer[i] # "\n"
  /\ buffer = Decode(TailBytes)

\* the position of the terminator of the k-th line
PosOfLine(k) == CHOOSE p \in NewlinePos : LineOrdinal(p) = k

\* C28: forwards and parse-error responses together are emitted in the order
\* of the lines they are for, each for a non-blank complete line of the
\* input; a chunk only adds emissions, after those of the chunks before it,
\* and only for lines that it completed.
C28_EmissionsInLineOrder ==
  /\ [](/\ \A i, j \in 1..Len(out) : i < j => out[i].line <= out[j].line
        /\ \A i \in 1..Len(out) :
             /\ out[i].line \in 1..Cardinality(NewlinePos)
             /\ LineText(PosOfLine(out[i].line)) # <<>>)
  /\ [][ /\ Len(out') >= Len(out)
         /\ SubSeq(out', 1, Len(out)) = out
         /\ \A i \in (Len(out) + 1)..Len(out') :
              out'[i].line > Cardinality(NewlinePos)
       ]_vars

\* C28 witness: two chunks were fed, the second ending the second line; the
\* first line was forwarded and the second answered with a parse error.
C28_Witness ==
  /\ nChunks = 2
  /\ Cardinality(NewlinePos) = 2 /\ fed[Len(fed)] = "\n"
  /\ Len(out) = 2
  /\ out[1].kind = "forward" /\ out[1].line = 1
  /\ out[2].kind = "write" /\ out[2].line = 2

\* an emission without the ordinal of its line
Content(e) ==
  IF e.kind = "forward" THEN <<"forward", e.data>>
  ELSE <<e.kind, e.code, e.message, e.received>>

Contents(em) == [i \in 1..Len(em) |-> Content(em[i])]

\* the bytes b without its complete lines that are empty or all whitespace
RECURSIVE JoinLines(_)
JoinLines(segs) ==
  IF Len(segs) = 1 THEN segs[1]
  ELSE (IF Trim(Decode(segs[1])) = <<>> THEN <<>> ELSE segs[1] \o <<"\n">>)
       \o JoinLines(Tail(segs))

WithoutBlankLines(b) == JoinLines(Split(b))

\* C29: a complete line that is empty or all whitespace gets no emission,
\* neither a forward nor a response, and the other lines are handled as if
\* it were not there: a chunk gives the emissions that the chunk without
\* its blank lines gives.
C29_BlankLinesSkipped ==
  /\ \A p \in NewlinePos :
       LineText(p) = <<>> => EmissionsFor(LineOrdinal(p)) = <<>>
  /\ nChunks = 1 =>
       /\ Contents(out) = Contents(DataHandler(NewFramer, WithoutBlankLines(fed)).out)
       /\ buffer = DataHandler(NewFramer, WithoutBlankLines(fed)).buffer

\* C29 witness: one chunk held a blank line between two lines that were
\* both answered.
C29_Witness ==
  /\ nChunks = 1
  /\ Len(out) = 2
  /\ \E p \in NewlinePos :
       /\ LineText(p) = <<>>
       /\ out[1].line < LineOrdinal(p) /\ LineOrdinal(p) < out[2].line

\* C30: for every complete line that is valid JSON, what is forwarded is one
\* payload, the bytes of the line's trimmed text followed by one newline:
\* not a re-serialisation, and not joined with or cut from another line.
C30_ForwardedVerbatim ==
  \A p \in NewlinePos :
    JsonValid(LineText(p)) =>
      Forwards(EmissionsFor(LineOrdinal(p))) =
        << [ kind |-> "forward", line |-> LineOrdinal(p),
             data |-> Encode(LineText(p) \o <<"\n">>) ] >>

-----------------------------------------------------------------------------
(* Parse errors and internal errors.                                       *)

C32_InternalErrorOnlyAfterSpawn ==
  (~TEST_MODE /\ pc = "responded" /\ request.name = "gemini_query") =>
    /\ (response.kind = "error" /\ response.code = -32603) => call.spawned
    /\ ~call.spawned => (response.kind = "error" /\ response.code = -32602)

====
